---- MODULE Spec2Model ----
(***************************************************************************)
(* A state-machine model of the ya benchmark runner (src/ya/runner.py):    *)
(* run_benchmarks dispatches, per benchmark, num_workers workers; each     *)
(* worker gathers num_tasks executors (run_single_executor); each executor *)
(* resolves its fixtures (run_fixture), runs the measurement loop until    *)
(* its deadline and then resumes its async-generator fixtures once.        *)
(*                                                                         *)
(* Every await of user code (fixture producer, benchmark call, teardown    *)
(* resumption) is a suspension point: the call and its return are two      *)
(* steps, and other executors, the clock and a cancellation may come in    *)
(* between.  Every time.time() is a read of the variable now.              *)
(*                                                                         *)
(* calculate_cps (src/ya/stat.py) is modelled as the action CalculateCps   *)
(* over samples df, under its own specification SpecCps.                   *)
(***************************************************************************)
EXTENDS Integers, Sequences, FiniteSets, TLC

\* ------------------------------------------------------------------ bounds
MaxCalls == 3            \* most invocations in one run
MaxTime == 60            \* the clock is free to advance up to here
TickStep == 30           \* seconds the clock advances in one step
RecursionLimit == 4      \* depth at which the interpreter raises RecursionError
MaxSplitTasks == 12      \* largest num_tasks handed to Dispatch alone
MaxSplitWorkers == 4     \* largest num_workers handed to Dispatch alone
MaxSamples == 100        \* most samples of one benchmark handed to calculate_cps

\* ------------------------------------------------------- program constants
SecondsPerMinute == 60   \* runner.py:121   duration_minutes * 60
MsPerSecond == 1000      \* runner.py:132   (...) * 1000.0
SpanDivisor == 1000      \* stat.py:85      (max - min) / 1000.0

FixtureNames == {"a", "b"}
Kinds == {"coro", "asyncgen", "sync"}
Durations == {0, 1}       \* duration_minutes tried
TaskCounts == {0, 1, 2}   \* num_tasks tried with running executors
WorkerCounts == {1, 2}    \* num_workers tried with running executors
BatchSizes == {1, 2}      \* numbers of benchmarks tried

VARIABLES
    module,        \* the loaded script: fixture name -> [deps, kind]
    discovered,    \* what discover_benchmarks returned: [name, fixtures], by name
    specific_task, \* the name filter, a string of characters; <<>> for none
    benchmarks,    \* the local benchmarks of run_benchmarks, filtered in place
    num_tasks, num_workers, duration_minutes,
    now,           \* the wall clock, in seconds
    rb_pc,         \* run_benchmarks: "start", "loop", "wait", "returned", "raised"
    bidx,          \* index of the benchmark the for loop of run_benchmarks is at
    worker_args,   \* task count handed to each worker of the current benchmark
    worker,        \* worker index -> [pc, results]
    ex,            \* <<worker, task>> -> the executor's local state
    all_data,      \* rows collected by run_benchmarks
    rb_result,     \* what run_benchmarks handed to its caller
    exit_code,     \* what cli.main returned (-1 while running)
    calls,         \* history: invocations started, per benchmark
    launched,      \* history: executors started, per benchmark
    df,            \* the samples handed to calculate_cps
    cps_df         \* what calculate_cps returned: benchmark name -> entry

vars == <<module, discovered, specific_task, benchmarks, num_tasks, num_workers,
          duration_minutes, now, rb_pc, bidx, worker_args, worker, ex,
          all_data, rb_result, exit_code, calls, launched, df, cps_df>>

config == <<module, discovered, specific_task, num_tasks, num_workers,
            duration_minutes>>

stat == <<df, cps_df>>

\* ----------------------------------------------------------------- helpers
Last(s) == s[Len(s)]

RECURSIVE SumSeq(_)
SumSeq(s) == IF s = <<>> THEN 0 ELSE s[1] + SumSeq(Tail(s))

RECURSIVE Flatten(_)
Flatten(ss) == IF ss = <<>> THEN <<>> ELSE ss[1] \o Flatten(Tail(ss))

\* sequences of distinct names (a Python parameter list) of length <= 2
ParamLists(names) ==
    {<<>>} \cup {<<n>> : n \in names}
           \cup {<<n, m>> : <<n, m>> \in {p \in names \X names : p[1] # p[2]}}

\* the fixture functions a script can define
FixtureFuncs == [deps : ParamLists(FixtureNames), kind : Kinds]

\* the scripts: every subset of the names defined, each in every shape
Modules == UNION {[D -> FixtureFuncs] : D \in SUBSET FixtureNames}

EmptyCache == [n \in {} |-> 0]

NoTime == -1

\* -------------------------------------------------------------- executors
\* the local state of one run_single_executor coroutine
NewExecutor ==
    [pc |-> "created",           \* where the coroutine is
     benchmark |-> 0,             \* index of the benchmark it was created for
     fidx |-> 1,                  \* for fixture_name in fixture_names
     stack |-> <<>>,              \* activations of run_fixture, innermost last
     cache |-> EmptyCache,        \* fixture_cache
     fixture_enumerators |-> <<>>,
     fixture_results |-> <<>>,
     start_time |-> NoTime, end_time |-> NoTime,
     check_time |-> NoTime,       \* the time.time() the while condition read
     call_start |-> NoTime,
     results |-> <<>>,
     tidx |-> 1,                  \* for gen in fixture_enumerators
     error |-> "", phase |-> "",  \* the exception that ended it, and where
     log |-> <<>>]                \* history of the calls it made

\* one activation of run_fixture(module, name, cache)
NewFrame(name) == [name |-> name, i |-> 1, gens |-> <<>>, args |-> <<>>]

\* the k-th object produced by fixture f in executor e: the value a coroutine
\* returned, or the generator created and the value it yielded
Instance(e, f, k) == [f |-> f, owner |-> e, n |-> k]

Event(op, f, n, args) == [op |-> op, f |-> f, n |-> n, args |-> args]

Produced(x, f) == Cardinality({i \in DOMAIN x.log :
                                 x.log[i].op = "produce" /\ x.log[i].f = f})

Raise(x, err, phase) == [x EXCEPT !.pc = "raised", !.error = err, !.phase = phase]

\* run_fixture is entered: the interpreter's recursion limit, then getattr
CallRunFixture(x, name) ==
    IF Len(x.stack) >= RecursionLimit THEN Raise(x, "RecursionError", "resolve")
    ELSE IF name \notin DOMAIN module THEN Raise(x, "AttributeError", "resolve")
    ELSE [x EXCEPT !.stack = Append(@, NewFrame(name)),
                   !.log = Append(@, Event("enter", name, 0, <<>>))]

\* cache[name] = value
CachePut(cache, name, value) ==
    [n \in DOMAIN cache \cup {name} |-> IF n = name THEN value ELSE cache[n]]

\* a resolver that puts the newest value in front of the arguments
ReturnFixtureInFront(x, gens, value) ==
    IF Len(x.stack) = 1
    THEN [x EXCEPT !.stack = <<>>,
                   !.fixture_enumerators = @ \o gens,
                   !.fixture_results = <<value>> \o @,
                   !.fidx = @ + 1,
                   !.pc = "resolve"]
    ELSE LET parent == x.stack[Len(x.stack) - 1]
             resumed == [parent EXCEPT !.gens = @ \o gens,
                                       !.args = <<value>> \o @,
                                       !.i = @ + 1]
         IN [x EXCEPT !.stack = Append(SubSeq(@, 1, Len(@) - 2), resumed),
                      !.pc = "resolve"]

\* run_fixture returns (gens, value) to the activation or loop that awaited it
ReturnFixture(x, gens, value) ==
    IF Len(x.stack) = 1
    THEN [x EXCEPT !.stack = <<>>,
                   !.fixture_enumerators = @ \o gens,
                   !.fixture_results = Append(@, value),
                   !.fidx = @ + 1,
                   !.pc = "resolve"]
    ELSE LET parent == x.stack[Len(x.stack) - 1]
             resumed == [parent EXCEPT !.gens = @ \o gens,
                                       !.args = Append(@, value),
                                       !.i = @ + 1]
         IN [x EXCEPT !.stack = Append(SubSeq(@, 1, Len(@) - 2), resumed),
                      !.pc = "resolve"]

FixtureNamesOf(b) == benchmarks[b].fixtures

\* One event loop runs the tasks of a worker: a task runs from one await to
\* the next without any other task of that worker running in between.
TasksOf(w) == {e \in DOMAIN ex : e[1] = w}
Suspended(e) == ex[e].pc \in {"in_produce", "in_invoke", "in_teardown"}
Finished(e) == ex[e].pc \in {"done", "raised", "cancelled"}
OnCpu(e) == ex[e].pc \in {"resolve", "loop", "call", "teardown"}
LoopIdle(w) == \A e \in TasksOf(w) : ~OnCpu(e)

\* the awaited call of e may return: the loop is free and gather is pending
Running(e) == worker[e[1]].pc = "running" /\ LoopIdle(e[1])

\* the loop runs the tasks gather created, first step in creation order;
\* results, fixture_cache, fixture_enumerators, fixture_results start empty
StartTask(e) ==
    /\ ex[e].pc = "created" /\ LoopIdle(e[1])
    /\ \A e2 \in TasksOf(e[1]) : e2[2] < e[2] => ex[e2].pc # "created"
    /\ ex' = [ex EXCEPT ![e].pc = "resolve"]
    /\ UNCHANGED <<config, stat, benchmarks, now, rb_pc, bidx, worker_args, worker, all_data,
                   rb_result, exit_code, calls, launched>>

\* the for loop of run_single_executor calls run_fixture for the next name
StartFixture(e) ==
    /\ ex[e].pc = "resolve" /\ ex[e].stack = <<>>
    /\ ex[e].fidx <= Len(FixtureNamesOf(ex[e].benchmark))
    /\ ex' = [ex EXCEPT ![e] = CallRunFixture(@, FixtureNamesOf(ex[e].benchmark)[@.fidx])]
    /\ UNCHANGED <<config, stat, benchmarks, now, rb_pc, bidx, worker_args, worker, all_data,
                   rb_result, exit_code, calls, launched>>

\* the for loop of run_fixture over dep_fixture: cached, or a recursive call
ResolveDep(e) ==
    /\ ex[e].pc = "resolve" /\ ex[e].stack # <<>>
    /\ LET x == ex[e]
           top == Last(x.stack)
           deps == module[top.name].deps
       IN /\ top.i <= Len(deps)
          /\ ex' = [ex EXCEPT ![e] =
                IF deps[top.i] \in DOMAIN x.cache
                THEN [x EXCEPT !.stack[Len(x.stack)] =
                        [top EXCEPT !.args = Append(@, x.cache[deps[top.i]]),
                                    !.i = @ + 1]]
                ELSE CallRunFixture(x, deps[top.i])]
    /\ UNCHANGED <<config, stat, benchmarks, now, rb_pc, bidx, worker_args, worker, all_data,
                   rb_result, exit_code, calls, launched>>

\* the dependencies are there: the fixture function is called by its kind
CallProducer(e) ==
    /\ ex[e].pc = "resolve" /\ ex[e].stack # <<>>
    /\ LET x == ex[e]
           top == Last(x.stack)
           fn == module[top.name]
           k == Produced(x, top.name) + 1
           called == [x EXCEPT !.pc = "in_produce",
                               !.log = Append(@, Event("produce", top.name, k, top.args))]
       IN /\ top.i > Len(fn.deps)
          /\ ex' = [ex EXCEPT ![e] =
                CASE fn.kind = "coro" -> called
                  [] fn.kind = "asyncgen" ->
                        [called EXCEPT !.stack[Len(x.stack)].gens =
                                          Append(@, Instance(e, top.name, k))]
                  [] OTHER -> Raise(x, "RuntimeError", "resolve")]
    /\ UNCHANGED <<config, stat, benchmarks, now, rb_pc, bidx, worker_args, worker, all_data,
                   rb_result, exit_code, calls, launched>>

ProducerOutcomes == {"value", "raise"}

\* the awaited producer finishes: its value is cached and returned, or it raised
ProducerReturn(e) ==
    /\ ex[e].pc = "in_produce" /\ Running(e)
    /\ \E outcome \in ProducerOutcomes :
         LET x == ex[e]
             top == Last(x.stack)
             value == Instance(e, top.name, Produced(x, top.name))
         IN ex' = [ex EXCEPT ![e] =
               IF outcome = "raise" THEN Raise(x, "UserError", "resolve")
               ELSE ReturnFixture(
                        [x EXCEPT !.cache = CachePut(@, top.name, value),
                                  !.log = Append(@, Event("value", top.name,
                                                          value.n, <<>>))],
                        top.gens, value)]
    /\ UNCHANGED <<config, stat, benchmarks, now, rb_pc, bidx, worker_args, worker, all_data,
                   rb_result, exit_code, calls, launched>>

\* start_time = time.time(); end_time = start_time + duration_minutes * 60
Deadline(start, minutes) == start + minutes * SecondsPerMinute

RecordStart(e) ==
    /\ ex[e].pc = "resolve" /\ ex[e].stack = <<>>
    /\ ex[e].fidx > Len(FixtureNamesOf(ex[e].benchmark))
    /\ ex' = [ex EXCEPT ![e] = [@ EXCEPT !.start_time = now,
                                         !.end_time = Deadline(now, duration_minutes),
                                         !.pc = "loop"]]
    /\ UNCHANGED <<config, stat, benchmarks, now, rb_pc, bidx, worker_args, worker, all_data,
                   rb_result, exit_code, calls, launched>>

\* while time.time() < end_time
LoopCheck(e) ==
    /\ ex[e].pc = "loop"
    /\ now >= ex[e].end_time \/ SumSeq(calls) < MaxCalls
    /\ ex' = [ex EXCEPT ![e] = [@ EXCEPT !.check_time = now,
                                         !.pc = IF now < ex[e].end_time THEN "call"
                                                ELSE "teardown"]]
    /\ UNCHANGED <<config, stat, benchmarks, now, rb_pc, bidx, worker_args, worker, all_data,
                   rb_result, exit_code, calls, launched>>

\* call_start = time.time(); benchmark_func(*fixture_results) is awaited
CallStart(e) ==
    /\ ex[e].pc = "call"
    /\ ex' = [ex EXCEPT ![e] =
          [@ EXCEPT !.call_start = now,
                    !.log = Append(@, Event("invoke", "", Len(ex[e].results) + 1,
                                            ex[e].fixture_results)),
                    !.pc = "in_invoke"]]
    /\ calls' = [calls EXCEPT ![ex[e].benchmark] = @ + 1]
    /\ UNCHANGED <<config, stat, benchmarks, now, rb_pc, bidx, worker_args, worker, all_data,
                   rb_result, exit_code, launched>>

\* execution_time = (time.time() - call_start) * 1000.0
ExecutionTime(end, start) == (end - start) * MsPerSecond

\* a runner that puts the newest sample first
PrependResult(results, sample) == <<sample>> \o results

\* results.append((call_start, execution_time, rtn))
AppendResult(results, sample) == Append(results, sample)

InvokeOutcomes == {"return", "raise"}

\* the awaited benchmark call finishes: a sample is stored, or it raised
InvokeReturn(e) ==
    /\ ex[e].pc = "in_invoke" /\ Running(e)
    /\ \E outcome \in InvokeOutcomes :
         ex' = [ex EXCEPT ![e] =
            IF outcome = "raise" THEN Raise(@, "UserError", "loop")
            ELSE [@ EXCEPT !.results = AppendResult(@,
                                <<ex[e].call_start,
                                  ExecutionTime(now, ex[e].call_start), "rtn">>),
                           !.pc = "loop"]]
    /\ UNCHANGED <<config, stat, benchmarks, now, rb_pc, bidx, worker_args, worker, all_data,
                   rb_result, exit_code, calls, launched>>

\* an executor that releases the generator acquired last first
NextGenFromEnd(x) ==
    x.fixture_enumerators[Len(x.fixture_enumerators) - x.tidx + 1]

\* the generator the for loop over fixture_enumerators is at
NextGen(x) == x.fixture_enumerators[x.tidx]

\* for gen in fixture_enumerators: gen.__anext__() is awaited
TeardownResume(e) ==
    /\ ex[e].pc = "teardown"
    /\ ex[e].tidx <= Len(ex[e].fixture_enumerators)
    /\ LET gen == NextGen(ex[e])
       IN ex' = [ex EXCEPT ![e] =
             [@ EXCEPT !.log = Append(@, Event("teardown", gen.f, gen.n, <<>>)),
                       !.pc = "in_teardown"]]
    /\ UNCHANGED <<config, stat, benchmarks, now, rb_pc, bidx, worker_args, worker, all_data,
                   rb_result, exit_code, calls, launched>>

\* how the resumed generator ends the step: StopAsyncIteration, another
\* exception, or a second yield
TeardownOutcomes == {"stop", "raise", "yield"}

\* an executor that calls the benchmark again after a teardown step
TeardownThenCall(x) == [x EXCEPT !.tidx = @ + 1, !.pc = "call"]

\* the for loop over fixture_enumerators goes on to the next generator
NextTeardown(x) == [x EXCEPT !.tidx = @ + 1, !.pc = "teardown"]

\* except StopAsyncIteration: pass; a second value is dropped; the rest propagates
TeardownReturn(e) ==
    /\ ex[e].pc = "in_teardown" /\ Running(e)
    /\ \E outcome \in TeardownOutcomes :
         ex' = [ex EXCEPT ![e] =
            IF outcome = "raise" THEN Raise(@, "UserError", "teardown")
            ELSE NextTeardown(@)]
    /\ UNCHANGED <<config, stat, benchmarks, now, rb_pc, bidx, worker_args, worker, all_data,
                   rb_result, exit_code, calls, launched>>

\* return results; gather notes the task as done
ExecutorReturn(e) ==
    /\ ex[e].pc = "teardown"
    /\ ex[e].tidx > Len(ex[e].fixture_enumerators)
    /\ ex' = [ex EXCEPT ![e].pc = "done"]
    /\ worker' = [worker EXCEPT ![e[1]].done_order = Append(@, e[2])]
    /\ UNCHANGED <<config, stat, benchmarks, now, rb_pc, bidx, worker_args,
                   all_data, rb_result, exit_code, calls, launched>>

\* the wall clock advances while an executor is in its measurement phase
InLoop(e) == ex[e].pc \in {"loop", "call", "in_invoke"}

\* a clock that stands still
ClockStopped(t) == t

\* what time.time() reads one step later
ClockAfter(t) == t + TickStep

Tick ==
    /\ \E e \in DOMAIN ex : InLoop(e) /\ (now < MaxTime \/ now < ex[e].end_time)
    /\ now' = ClockAfter(now)
    /\ UNCHANGED <<config, stat, benchmarks, rb_pc, bidx, worker_args, worker, ex, all_data,
                   rb_result, exit_code, calls, launched>>

\* ---------------------------------------------------------------- workers

\* a worker that puts the samples together in the order the tasks finished
ResultsAsCompleted(w) ==
    Flatten([k \in DOMAIN worker[w].done_order |->
                ex[<<w, worker[w].done_order[k]>>].results])

\* all_results = await asyncio.gather(*tasks), flattened in task order
CombinedResults(w) ==
    Flatten([t \in 1..worker_args[w] |-> ex[<<w, t>>].results])

GatherReturn(w) ==
    /\ worker[w].pc = "running" /\ LoopIdle(w)
    /\ \A e \in TasksOf(w) : ex[e].pc = "done"
    /\ worker' = [worker EXCEPT ![w] = [@ EXCEPT !.pc = "returned",
                                                 !.results = CombinedResults(w)]]
    /\ UNCHANGED <<config, stat, benchmarks, now, rb_pc, bidx, worker_args, ex, all_data,
                   rb_result, exit_code, calls, launched>>

\* gather hands the first exception to run_worker_async, which ends with it;
\* asyncio.run then cancels the tasks that are still pending
GatherRaise(w) ==
    /\ worker[w].pc = "running" /\ LoopIdle(w)
    /\ \A e \in TasksOf(w) : ex[e].pc # "created"
    /\ \E e \in TasksOf(w) : ex[e].pc = "raised"
    /\ worker' = [worker EXCEPT ![w].pc = "failing"]
    /\ UNCHANGED <<config, stat, benchmarks, now, rb_pc, bidx, worker_args, ex, all_data,
                   rb_result, exit_code, calls, launched>>

\* a pending task gets CancelledError at the await it is suspended in
CancelTask(e) ==
    /\ worker[e[1]].pc = "failing" /\ LoopIdle(e[1])
    /\ Suspended(e)
    /\ ex' = [ex EXCEPT ![e] = [@ EXCEPT !.pc = "cancelled",
                                         !.error = "CancelledError",
                                         !.phase = ex[e].pc]]
    /\ UNCHANGED <<config, stat, benchmarks, now, rb_pc, bidx, worker_args, worker, all_data,
                   rb_result, exit_code, calls, launched>>

\* asyncio.run re-raises once every task has ended
WorkerRaise(w) ==
    /\ worker[w].pc = "failing"
    /\ \A e \in TasksOf(w) : Finished(e)
    /\ worker' = [worker EXCEPT ![w].pc = "raised"]
    /\ UNCHANGED <<config, stat, benchmarks, now, rb_pc, bidx, worker_args, ex, all_data,
                   rb_result, exit_code, calls, launched>>

\* ----------------------------------------------------------- orchestrator
\* re.match compiles the pattern first: an unclosed group is a re.error
Malformed(pattern) == \E i \in DOMAIN pattern : pattern[i] = "("

\* re.match(pattern, name) for a pattern of literals and dots: at the start
ReMatch(pattern, name) ==
    /\ Len(pattern) <= Len(name)
    /\ \A i \in DOMAIN pattern : pattern[i] = "." \/ pattern[i] = name[i]

\* specific_task in name
Contains(sub, name) ==
    \E k \in 0..(Len(name) - Len(sub)) : SubSeq(name, k + 1, k + Len(sub)) = sub

\* if re.match(specific_task, name) or specific_task in name
Selected(pattern, name) == ReMatch(pattern, name) \/ Contains(pattern, name)

\* the dict comprehension over benchmarks.items()
Filtered(items, pattern) ==
    SelectSeq(items, LAMBDA item : Selected(pattern, item.name))

\* if specific_task: benchmarks = {...}; if not benchmarks: return pd.DataFrame()
Filter ==
    /\ rb_pc = "start"
    /\ IF specific_task # <<>> /\ benchmarks # <<>> /\ Malformed(specific_task)
       THEN /\ rb_pc' = "raised" /\ exit_code' = 1
            /\ UNCHANGED <<benchmarks, rb_result, calls, launched>>
       ELSE LET kept == IF specific_task = <<>> THEN benchmarks
                        ELSE Filtered(benchmarks, specific_task)
            IN /\ benchmarks' = kept
               /\ calls' = [b \in DOMAIN kept |-> 0]
               /\ launched' = [b \in DOMAIN kept |-> 0]
               /\ IF kept = <<>>
                  THEN rb_pc' = "returned" /\ rb_result' = <<>> /\ exit_code' = 0
                  ELSE rb_pc' = "loop" /\ UNCHANGED <<rb_result, exit_code>>
    /\ UNCHANGED <<config, stat, now, bidx, worker_args, worker, ex, all_data>>

\* a runner that splits the tasks over the workers, remainder to the first
SplitWorkerArgs(tasks, workers) ==
    [w \in 1..workers |-> (tasks \div workers)
                            + (IF w <= tasks % workers THEN 1 ELSE 0)]

\* worker_args: one tuple per worker, each carrying num_tasks
WorkerArgs(tasks, workers) == [w \in 1..workers |-> tasks]

\* the for loop of run_benchmarks starts the workers of the next benchmark
Dispatch ==
    /\ rb_pc = "loop" /\ bidx <= Len(benchmarks)
    /\ LET args == WorkerArgs(num_tasks, num_workers)
       IN /\ worker_args' = args
          /\ worker' = [w \in DOMAIN args |->
                          [pc |-> "running", results |-> <<>>, done_order |-> <<>>]]
          /\ ex' = [e \in {p \in (DOMAIN args) \X (1..num_tasks) : p[2] <= args[p[1]]}
                      |-> [NewExecutor EXCEPT !.benchmark = bidx]]
          /\ launched' = [launched EXCEPT ![bidx] = SumSeq(args)]
    /\ rb_pc' = "wait"
    /\ UNCHANGED <<config, stat, benchmarks, now, bidx, all_data, rb_result, exit_code, calls>>

\* a runner that loses the last sample of every worker
RowsButLast(b, w, results) ==
    [i \in 1..(Len(results) - 1) |->
        [benchmark |-> b, worker |-> w - 1, timestamp |-> results[i][1],
         execution_time |-> results[i][2], return_value |-> results[i][3]]]

\* the rows of one worker, tagged with the benchmark and the worker index
Rows(b, w, results) ==
    [i \in DOMAIN results |->
        [benchmark |-> b, worker |-> w - 1, timestamp |-> results[i][1],
         execution_time |-> results[i][2], return_value |-> results[i][3]]]

\* an orchestrator that goes on as soon as one worker has returned
SomeWorkerReturned == \E w \in DOMAIN worker : worker[w].pc = "returned"

\* Pool.map, or the list of inline calls, has returned worker_results
WorkersJoined == \A w \in DOMAIN worker : worker[w].pc = "returned"

\* for worker_idx, results in enumerate(worker_results): all_data.append(...)
Combine ==
    /\ rb_pc = "wait"
    /\ WorkersJoined
    /\ all_data' = all_data \o
          Flatten([w \in DOMAIN worker |->
                      Rows(benchmarks[bidx].name, w, worker[w].results)])
    /\ bidx' = bidx + 1
    /\ rb_pc' = "loop"
    /\ UNCHANGED <<config, stat, benchmarks, now, worker_args, worker, ex, rb_result, exit_code,
                   calls, launched>>

\* Pool.map (or the inline call) re-raises a worker's exception once all
\* workers have ended; run_benchmarks does not catch it and cli.main returns 1
Propagate ==
    /\ rb_pc = "wait"
    /\ \A w \in DOMAIN worker : worker[w].pc \in {"returned", "raised"}
    /\ \E w \in DOMAIN worker : worker[w].pc = "raised"
    /\ rb_pc' = "raised"
    /\ exit_code' = 1
    /\ UNCHANGED <<config, stat, benchmarks, now, bidx, worker_args, worker, ex, all_data,
                   rb_result, calls, launched>>

\* return pd.DataFrame(all_data); cli.main prints the summary and returns 0
Return ==
    /\ rb_pc = "loop" /\ bidx > Len(benchmarks)
    /\ rb_pc' = "returned"
    /\ rb_result' = all_data
    /\ exit_code' = 0
    /\ UNCHANGED <<config, stat, benchmarks, now, bidx, worker_args, worker, ex, all_data,
                   calls, launched>>

\* ------------------------------------------------------------------- runs
\* the parameter lists a benchmark can have
BenchmarkLists(n) == UNION {[1..k -> ParamLists(FixtureNames)] : k \in 1..n}

\* benchmark names: the prefix discover_benchmarks asks for, and a letter
Prefix == <<"b", "e", "n", "c", "h", "m", "a", "r", "k", "_">>
Letters == <<"x", "y">>
BenchmarkName(k) == Append(Prefix, Letters[k])

\* the dict discover_benchmarks builds from the parameter lists, by name
Discovered(lists) ==
    [k \in DOMAIN lists |-> [name |-> BenchmarkName(k), fixtures |-> lists[k]]]

\* scripts whose fixtures have no dependencies
FlatModules == {m \in Modules : \A f \in DOMAIN m : m[f].deps = <<>>}

InitRun ==
    /\ benchmarks = discovered
    /\ df = <<>> /\ cps_df = <<>>
    /\ now = 0
    /\ rb_pc = "start" /\ bidx = 1
    /\ worker_args = <<>> /\ worker = <<>> /\ ex = <<>>
    /\ all_data = <<>> /\ rb_result = <<>> /\ exit_code = -1
    /\ calls = [b \in DOMAIN benchmarks |-> 0]
    /\ launched = [b \in DOMAIN benchmarks |-> 0]

\* the scripts and parameter lists tried where executors run side by side:
\* at most the fixture a, without dependencies
SmallModules == {m \in FlatModules : DOMAIN m \subseteq {"a"}}
SmallLists == {<<>>, <<"a">>}

\* one executor, every script and every parameter list
InitResolver ==
    /\ module \in Modules
    /\ discovered \in {Discovered(l) : l \in BenchmarkLists(1)}
    /\ specific_task = <<>>
    /\ num_tasks = 1 /\ num_workers = 1
    /\ duration_minutes \in Durations

\* one worker gathering several executors
InitWorker ==
    /\ module \in SmallModules
    /\ discovered \in {Discovered(l) : l \in [1..1 -> SmallLists]}
    /\ specific_task = <<>>
    /\ num_tasks \in TaskCounts /\ num_workers = 1
    /\ duration_minutes \in Durations

\* several worker processes of one benchmark without fixtures
InitPool ==
    /\ module = <<>>
    /\ discovered = Discovered(<< <<>> >>)
    /\ specific_task = <<>>
    /\ num_tasks = 1 /\ num_workers \in WorkerCounts
    /\ duration_minutes \in Durations

\* a batch of benchmarks, one after the other
InitBatch ==
    /\ module \in SmallModules
    /\ discovered \in {Discovered(l) : l \in UNION {[1..k -> SmallLists] : k \in BatchSizes}}
    /\ specific_task = <<>>
    /\ num_tasks = 1 /\ num_workers = 1
    /\ duration_minutes \in Durations

\* a fixture c over the fixtures a and b, in either order, all of one kind
OrderModules ==
    {[f \in {"a", "b", "c"} |->
        [deps |-> IF f = "c" THEN deps ELSE <<>>, kind |-> kind]] :
            deps \in {<<"a", "b">>, <<"b", "a">>}, kind \in {"coro", "asyncgen"}}
OrderLists == {<<"c">>, <<"b", "c">>, <<"c", "a">>, <<"a", "c">>}

\* one executor resolving a fixture with two dependencies
InitOrder ==
    /\ module \in OrderModules
    /\ discovered \in {Discovered(l) : l \in [1..1 -> OrderLists]}
    /\ specific_task = <<>>
    /\ num_tasks = 1 /\ num_workers = 1
    /\ duration_minutes \in Durations

\* the name filters tried: one or two of a letter, the dot and an open group
PatternChars == {"x", "y", ".", "("}
Patterns == {<<c>> : c \in PatternChars}
                \cup {<<c, d>> : <<c, d>> \in PatternChars \X PatternChars}

\* a filter over zero to two discovered benchmarks without fixtures
InitFilter ==
    /\ module = <<>>
    /\ discovered \in {Discovered(l) : l \in {<<>>, << <<>> >>, << <<>>, <<>> >>}}
    /\ specific_task \in Patterns \cup {<<>>}
    /\ num_tasks = 1 /\ num_workers = 1
    /\ duration_minutes \in Durations

Init == (InitResolver \/ InitWorker \/ InitPool \/ InitBatch \/ InitFilter
            \/ InitOrder) /\ InitRun

Next ==
    \/ \E e \in DOMAIN ex : StartTask(e)
    \/ \E e \in DOMAIN ex : StartFixture(e)
    \/ \E e \in DOMAIN ex : ResolveDep(e)
    \/ \E e \in DOMAIN ex : CallProducer(e)
    \/ \E e \in DOMAIN ex : ProducerReturn(e)
    \/ \E e \in DOMAIN ex : RecordStart(e)
    \/ \E e \in DOMAIN ex : LoopCheck(e)
    \/ \E e \in DOMAIN ex : CallStart(e)
    \/ \E e \in DOMAIN ex : InvokeReturn(e)
    \/ \E e \in DOMAIN ex : TeardownResume(e)
    \/ \E e \in DOMAIN ex : TeardownReturn(e)
    \/ \E e \in DOMAIN ex : ExecutorReturn(e)
    \/ \E e \in DOMAIN ex : CancelTask(e)
    \/ \E w \in DOMAIN worker : GatherReturn(w)
    \/ \E w \in DOMAIN worker : GatherRaise(w)
    \/ \E w \in DOMAIN worker : WorkerRaise(w)
    \/ Tick
    \/ Filter \/ Dispatch \/ Combine \/ Propagate \/ Return

Spec == Init /\ [][Next]_vars

\* --------------------------------------------------------------- fairness
\* the event loop of a worker runs the task that is ready
LoopStep ==
    \E e \in DOMAIN ex :
        \/ StartTask(e) \/ StartFixture(e) \/ ResolveDep(e) \/ CallProducer(e)
        \/ RecordStart(e) \/ LoopCheck(e) \/ CallStart(e)
        \/ TeardownResume(e) \/ ExecutorReturn(e) \/ CancelTask(e)

\* an awaited producer, benchmark call or teardown step comes back
UserReturn ==
    \E e \in DOMAIN ex : ProducerReturn(e) \/ InvokeReturn(e) \/ TeardownReturn(e)

\* gather and asyncio.run go on once the tasks allow it
WorkerStep ==
    \E w \in DOMAIN worker : GatherReturn(w) \/ GatherRaise(w) \/ WorkerRaise(w)

\* run_benchmarks goes on
OrchestratorStep == Filter \/ Dispatch \/ Combine \/ Propagate \/ Return

\* user code terminates, the clock advances, and whoever can run does
Fairness ==
    /\ WF_vars(Tick)
    /\ WF_vars(LoopStep)
    /\ WF_vars(UserReturn)
    /\ WF_vars(WorkerStep)
    /\ WF_vars(OrchestratorStep)

\* two executors of one worker, without fixtures
InitPair ==
    /\ module = <<>>
    /\ discovered = Discovered(<< <<>> >>)
    /\ specific_task = <<>>
    /\ num_tasks = 2 /\ num_workers = 1
    /\ duration_minutes \in Durations

\* worker processes whose deadline is reached at once
InitPoolShort == InitPool /\ duration_minutes = 0

InitLive == (InitBatch \/ InitOrder \/ InitFilter \/ InitPair \/ InitPoolShort)
                /\ InitRun

SpecLive == InitLive /\ [][Next]_vars /\ Fairness

\* ------------------------------------------------------------- statistics
MinOf(S) == CHOOSE m \in S : \A n \in S : m <= n

MaxOf(S) == IF S = {} THEN 0 ELSE CHOOSE m \in S : \A n \in S : n <= m

\* df["benchmark"].unique()
Functions(rows) == {rows[i].benchmark : i \in DOMAIN rows}

\* df[df["benchmark"] == func]
FuncData(rows, func) == SelectSeq(rows, LAMBDA row : row.benchmark = func)

\* func_data.sort_values("timestamp")
SortByTimestamp(rows) ==
    SortSeq(rows, LAMBDA r1, r2 : r1.timestamp < r2.timestamp)

\* trim_count = int(n * 0.1): the product is never below n / 10 in floats
TrimCount(n) == n \div 10

\* func_data.iloc[trim_count:-trim_count] if trim_count > 0 else func_data
Trimmed(rows) ==
    LET trim_count == TrimCount(Len(rows))
    IN IF trim_count > 0
       THEN SubSeq(rows, trim_count + 1, Len(rows) - trim_count)
       ELSE rows

\* f"{num / den:,.2f}" in hundredths: the nearest decimal, ties to even
Hundredths(num, den) ==
    LET q == (num * 100) \div den
        r == (num * 100) % den
    IN IF 2 * r > den \/ (2 * r = den /\ q % 2 = 1) THEN q + 1 ELSE q

\* the entry of one function: the int 0, or the formatted cps, where
\* cps = len / time_span_seconds and time_span_seconds = (max - min) / 1000.0
CpsEntry(rows) ==
    LET trimmed_data == Trimmed(SortByTimestamp(rows))
        stamps == {trimmed_data[i].timestamp : i \in DOMAIN trimmed_data}
        span == MaxOf(stamps) - MinOf(stamps)
    IN IF Len(trimmed_data) <= 1 THEN [text |-> FALSE, hundredths |-> 0]
       ELSE IF span > 0
       THEN [text |-> TRUE,
             hundredths |-> Hundredths(Len(trimmed_data) * SpanDivisor, span)]
       ELSE [text |-> TRUE, hundredths |-> Len(trimmed_data) * 100]

\* calculate_cps(df)
CalculateCps ==
    /\ df # <<>> /\ cps_df = <<>>
    /\ cps_df' = [func \in Functions(df) |-> CpsEntry(FuncData(df, func))]
    /\ UNCHANGED <<config, benchmarks, now, rb_pc, bidx, worker_args, worker, ex,
                   all_data, rb_result, exit_code, calls, launched, df>>

\* the samples tried: n of one benchmark, evenly spaced, in either order,
\* with or without a sample of a second benchmark
Gaps == {0, 1, 2}
Extras == {0, 1}
Orders == {"ascending", "descending"}

SampleRow(name, t) ==
    [benchmark |-> name, worker |-> 0, timestamp |-> t, execution_time |-> 0,
     return_value |-> "rtn"]

Samples(n, gap, order, extra) ==
    [i \in 1..n |-> SampleRow(BenchmarkName(1),
                              IF order = "ascending" THEN gap * (i - 1)
                              ELSE gap * (n - i))]
        \o [i \in 1..extra |-> SampleRow(BenchmarkName(2), 0)]

InitCps ==
    /\ module = <<>> /\ discovered = <<>> /\ specific_task = <<>>
    /\ benchmarks = <<>>
    /\ num_tasks = 1 /\ num_workers = 1 /\ duration_minutes = 0
    /\ now = 0 /\ rb_pc = "returned" /\ bidx = 1
    /\ worker_args = <<>> /\ worker = <<>> /\ ex = <<>>
    /\ all_data = <<>> /\ rb_result = <<>> /\ exit_code = 0
    /\ calls = <<>> /\ launched = <<>>
    /\ df \in {Samples(n, gap, order, extra) :
                  n \in 1..MaxSamples, gap \in Gaps, order \in Orders,
                  extra \in Extras}
    /\ cps_df = <<>>

NextCps == CalculateCps

SpecCps == InitCps /\ [][NextCps]_vars

\* Dispatch alone, over a wide range of task and worker counts
InitDispatch ==
    /\ module = <<>>
    /\ discovered = Discovered(<< <<>> >>)
    /\ specific_task = <<>>
    /\ num_tasks \in 0..MaxSplitTasks /\ num_workers \in 1..MaxSplitWorkers
    /\ duration_minutes = 0
    /\ InitRun

NextDispatch == Filter \/ Dispatch

SpecDispatch == InitDispatch /\ [][NextDispatch]_vars

\* ----------------------------------------------------------------- claims
Executors == DOMAIN ex

\* how often executor state x resumed generator g for its teardown
Teardowns(x, g) ==
    Cardinality({i \in DOMAIN x.log : /\ x.log[i].op = "teardown"
                                       /\ x.log[i].f = g.f /\ x.log[i].n = g.n})

Invocations(x) == Cardinality({i \in DOMAIN x.log : x.log[i].op = "invoke"})

\* the async-generator fixtures whose first value x holds
ResolvedScoped(x) ==
    {x.cache[f] : f \in {n \in DOMAIN x.cache : module[n].kind = "asyncgen"}}

\* the executor has left its measurement loop through the while condition
LoopExited(x) ==
    \/ x.pc \in {"teardown", "in_teardown", "done"}
    \/ x.phase \in {"teardown", "in_teardown"}

\* the loop of the executor has ended, by the deadline, an error or a cancel
LoopEnded(x) ==
    \/ LoopExited(x)
    \/ x.pc \in {"raised", "cancelled"} /\ x.phase \in {"loop", "in_invoke"}

\* C1: within one executor run every fixture producer is invoked at most
\* once, also when the fixture is requested again after it was resolved.
C1_ProducerInvokedOnce ==
    \A e \in Executors : \A f \in FixtureNames : Produced(ex[e], f) <= 1

\* C2: once the loop of an executor has ended and the executor is over, by
\* the deadline, by an error of an invocation or because a sibling failed,
\* every async-generator fixture it resolved was resumed exactly once.
C2_TeardownComplete ==
    \A e \in Executors :
        (Finished(e) /\ LoopEnded(ex[e])) =>
            \A i \in DOMAIN ex[e].fixture_enumerators :
                Teardowns(ex[e], ex[e].fixture_enumerators[i]) = 1

\* C3: a teardown step that raises does not end the executor with an error
\* and every pending generator still gets its resumption.
C3_TeardownIsolated ==
    \A e \in Executors :
        (Finished(e) /\ LoopExited(ex[e]) /\ ex[e].pc # "cancelled") =>
            /\ ex[e].pc = "done"
            /\ \A i \in DOMAIN ex[e].fixture_enumerators :
                  Teardowns(ex[e], ex[e].fixture_enumerators[i]) = 1

\* C4: when resolving a fixture fails, no invocation has occurred and every
\* async-generator fixture resolved before was resumed for its teardown.
C4_ResolutionFailureCleanup ==
    \A e \in Executors :
        (ex[e].pc = "raised" /\ ex[e].phase = "resolve") =>
            /\ Invocations(ex[e]) = 0
            /\ \A g \in ResolvedScoped(ex[e]) : Teardowns(ex[e], g) = 1

\* C5: the resolver never goes round a dependency cycle: no fixture is being
\* resolved twice at once, and no resolution ends at the recursion limit.
C5_CycleDetected ==
    \A e \in Executors :
        /\ \A i, j \in DOMAIN ex[e].stack :
              ex[e].stack[i].name = ex[e].stack[j].name => i = j
        /\ ex[e].error # "RecursionError"

Dispatched(b) == b < bidx \/ (b = bidx /\ rb_pc \in {"wait", "raised"})

\* the exceptions a wrong script raises: an undeclared fixture name, a fixture
\* that is not async, a dependency cycle
ConfigurationErrors == {"AttributeError", "RuntimeError", "RecursionError"}

\* C7: when a run in which a producer, an invocation or a teardown raised is
\* over, every benchmark was dispatched and the rows of the benchmarks that
\* completed were handed to the caller.
C7_BatchFailureIsolation ==
    (/\ rb_pc \in {"returned", "raised"}
     /\ \E e \in Executors : ex[e].error = "UserError"
     /\ \A e \in Executors : ex[e].error \notin ConfigurationErrors) =>
        /\ \A b \in DOMAIN benchmarks : Dispatched(b)
        /\ rb_result = all_data

\* C8: a run that ends with a configuration error has invoked no benchmark.
C8_ConfigurationErrorFirst ==
    (rb_pc = "raised" /\ \E e \in Executors : ex[e].error \in ConfigurationErrors)
        => \A b \in DOMAIN calls : calls[b] = 0

\* the latency, in ms, of the slowest invocation of x that completed
SlowestMs(x) == MaxOf({x.results[i][2] : i \in DOMAIN x.results})

\* C9: no invocation starts at or after the deadline, an invocation that
\* started is not cut short, the loop is left at a time t with
\* deadline <= t <= deadline + slowest latency, and duration 0 invokes nothing.
C9_DeadlineBound ==
    \A e \in Executors :
        LET x == ex[e] IN
        /\ \A i \in DOMAIN x.results : x.results[i][1] < x.end_time
        /\ x.pc = "in_invoke" => x.call_start < x.end_time
        /\ ~(x.pc = "cancelled" /\ x.phase = "in_invoke")
        /\ LoopExited(x) =>
              /\ x.end_time <= x.check_time
              /\ x.check_time * MsPerSecond
                    <= x.end_time * MsPerSecond + SlowestMs(x)
        /\ duration_minutes = 0 => Invocations(x) = 0

\* C10: the samples of an executor are in time order, and each invocation
\* ended no later than the next one started.
C10_SamplesOrdered ==
    \A e \in Executors :
        \A i \in 1..(Len(ex[e].results) - 1) :
            LET s == ex[e].results[i]
                t == ex[e].results[i + 1]
            IN /\ s[1] <= t[1]
               /\ s[1] * MsPerSecond + s[2] <= t[1] * MsPerSecond

C10_Witness ==
    \E e \in Executors :
        /\ Len(ex[e].results) >= 2
        /\ ex[e].results[1][1] < ex[e].results[2][1]
        /\ ex[e].results[1][2] > 0
        /\ \E o \in TasksOf(e[1]) \ {e} : ex[o].results # <<>>

\* the fixture objects executor state x holds or has handed to a call
Held(x) ==
    {x.cache[f] : f \in DOMAIN x.cache}
        \cup {x.fixture_results[i] : i \in DOMAIN x.fixture_results}
        \cup {x.fixture_enumerators[i] : i \in DOMAIN x.fixture_enumerators}
        \cup UNION {{x.log[i].args[k] : k \in DOMAIN x.log[i].args} :
                      i \in DOMAIN x.log}

\* every object executor e holds, passes to a producer or to the benchmark,
\* or resumes for teardown was produced for e
OwnObjectsOnly(e) ==
    /\ \A v \in Held(ex[e]) : v.owner = e
    /\ \A i \in DOMAIN ex[e].log :
          ex[e].log[i].op = "teardown" =>
              \E j \in 1..(i - 1) : /\ ex[e].log[j].op = "produce"
                                    /\ ex[e].log[j].f = ex[e].log[i].f
                                    /\ ex[e].log[j].n = ex[e].log[i].n

\* C11: each executor of a worker resolves its fixtures into its own cache:
\* no object produced for one executor is held, passed on or torn down by
\* another, and each producer is invoked once per executor.
C11_CacheIsolation ==
    \A e \in Executors :
        /\ OwnObjectsOnly(e)
        /\ \A f \in DOMAIN module : Produced(ex[e], f) <= 1

\* the rows of all_data that carry benchmark name n, and those of worker index i
RowsOf(n) == SelectSeq(all_data, LAMBDA row : row.benchmark = n)
RowsOfWorker(n, i) ==
    SelectSeq(all_data, LAMBDA row : row.benchmark = n /\ row.worker = i)

\* the sample a row was made of
SampleOf(row) == <<row.timestamp, row.execution_time, row.return_value>>

\* the samples of the executors of worker w, first task first
SamplesOfWorker(w) ==
    Flatten([t \in 1..Cardinality(TasksOf(w)) |-> ex[<<w, t>>].results])

\* the benchmarks whose for-loop body has completed
Completed == IF rb_pc = "start" THEN {} ELSE 1..(bidx - 1)

\* C12: for a benchmark that completed without error the rows held are, one
\* for one, the invocations its executors completed: as many rows as
\* invocations, and for every worker the rows tagged with its index are the
\* samples of its executors, none lost and none twice, under the benchmark's name.
C12_SampleConservation ==
    /\ \A b \in Completed : Len(RowsOf(benchmarks[b].name)) = calls[b]
    /\ \A i \in DOMAIN all_data :
          \E b \in Completed : all_data[i].benchmark = benchmarks[b].name
    /\ (rb_pc \in {"loop", "returned"} /\ bidx > 1) =>
          LET name == benchmarks[bidx - 1].name IN
          /\ \A e \in Executors : Len(ex[e].results) = Invocations(ex[e])
          /\ \A w \in DOMAIN worker :
                [k \in DOMAIN RowsOfWorker(name, w - 1) |->
                    SampleOf(RowsOfWorker(name, w - 1)[k])] = SamplesOfWorker(w)
          /\ \A i \in DOMAIN all_data :
                all_data[i].benchmark = name =>
                    all_data[i].worker + 1 \in DOMAIN worker

\* a run over two workers returned rows of both
C12_Witness ==
    /\ rb_pc = "returned" /\ rb_result = all_data
    /\ \E i, j \in DOMAIN all_data : all_data[i].worker = 0 /\ all_data[j].worker = 1

\* the filter selects the name: it occurs in it, or it is a pattern matching it
FilterMatches(pattern, name) ==
    Contains(pattern, name) \/ (~Malformed(pattern) /\ ReMatch(pattern, name))

\* nothing to run: nothing was discovered, or the filter selects no name
NothingToRun ==
    \/ discovered = <<>>
    \/ /\ specific_task # <<>>
       /\ \A i \in DOMAIN discovered :
             ~FilterMatches(specific_task, discovered[i].name)

\* C13: when no discovered benchmark matches the filter, run_benchmarks
\* returns an empty result without an error, and no worker was dispatched, no
\* producer invoked and no benchmark called.
C13_EmptyFilter ==
    (rb_pc # "start" /\ NothingToRun) =>
        /\ rb_pc = "returned" /\ rb_result = <<>> /\ exit_code = 0
        /\ worker = <<>> /\ ex = <<>>
        /\ \A b \in DOMAIN calls : calls[b] = 0 /\ launched[b] = 0

\* what C14 promises for the samples rows of one benchmark with timestamps in
\* seconds: floor(n * 0.1) dropped at each end of the sorted samples, 0 when
\* fewer than 2 remain, the count when the span is zero, else count / span
PromisedCps(rows) ==
    LET n == Len(rows)
        drop == n \div 10
        sorted == SortByTimestamp(rows)
        remaining == n - 2 * drop
        seconds == sorted[n - drop].timestamp - sorted[drop + 1].timestamp
    IN IF remaining < 2 THEN 0
       ELSE IF seconds = 0 THEN remaining * 100
       ELSE Hundredths(remaining, seconds)

\* C14: calculate_cps yields, for every benchmark of the samples, the calls
\* per second of the trimmed samples with the span taken in seconds; 100
\* samples one second apart give 80/79, printed as 1.01.
C14_CpsTrimmed ==
    cps_df # <<>> =>
        /\ DOMAIN cps_df = Functions(df)
        /\ \A func \in DOMAIN cps_df :
              cps_df[func].hundredths = PromisedCps(FuncData(df, func))
        /\ \A row \in {df[i] : i \in DOMAIN df} :
              (Len(FuncData(df, row.benchmark)) = 100
                 /\ \A i \in 1..99 : df[i + 1].timestamp = df[i].timestamp + 1)
                  => cps_df[row.benchmark].hundredths = 101

\* the number of samples of the tasks of worker w started before task t
SamplesBefore(w, t) == SumSeq([k \in 1..(t - 1) |-> Len(ex[<<w, k>>].results)])

\* C15: a worker that returned has all its executors finished, loop left and
\* teardown loop run through, and its result is the samples of task 1, then
\* those of task 2, ..., each in the executor's own order, whatever the order
\* in which the tasks finished.
C15_WorkerJoinOrder ==
    \A w \in DOMAIN worker :
        worker[w].pc = "returned" =>
            /\ \A e \in TasksOf(w) :
                  /\ ex[e].pc = "done" /\ LoopExited(ex[e])
                  /\ ex[e].tidx > Len(ex[e].fixture_enumerators)
                  /\ \A i \in DOMAIN ex[e].results :
                        worker[w].results[SamplesBefore(w, e[2]) + i]
                            = ex[e].results[i]
            /\ Len(worker[w].results)
                  = SamplesBefore(w, Cardinality(TasksOf(w)) + 1)

\* the second task finished first, and the samples of the two differ
C15_Witness ==
    \E w \in DOMAIN worker :
        /\ worker[w].pc = "returned" /\ worker[w].done_order = <<2, 1>>
        /\ ex[<<w, 1>>].results # <<>> /\ ex[<<w, 2>>].results # <<>>
        /\ ex[<<w, 1>>].results # ex[<<w, 2>>].results

\* executor state x has resumed a generator for its teardown
TeardownBegun(x) == \E i \in DOMAIN x.log : x.log[i].op = "teardown"

\* C16: no teardown step of an executor comes before one of its fixture
\* resolutions or benchmark invocations: once a generator was resumed for
\* teardown the executor has left its loop and calls no producer and no
\* benchmark any more.
C16_NoEarlyTeardown ==
    \A e \in Executors :
        /\ TeardownBegun(ex[e]) => LoopExited(ex[e])
        /\ \A i, j \in DOMAIN ex[e].log :
              (i < j /\ ex[e].log[i].op = "teardown") =>
                  ex[e].log[j].op = "teardown"

\* an executor invoked its benchmark, then tore down two generators
C16_Witness ==
    \E e \in Executors :
        /\ ex[e].pc = "done" /\ Invocations(ex[e]) >= 1
        /\ Len(ex[e].fixture_enumerators) = 2
        /\ \A i \in DOMAIN ex[e].fixture_enumerators :
              Teardowns(ex[e], ex[e].fixture_enumerators[i]) = 1

\* the object v was produced and its producer had returned before log entry i
ValueBefore(x, v, i) ==
    \E j \in 1..(i - 1) : /\ x.log[j].op = "value"
                          /\ x.log[j].f = v.f /\ x.log[j].n = v.n

\* args are values of the fixtures names, position by position, the first k
Positional(args, names, k) ==
    /\ Len(args) = k /\ k <= Len(names)
    /\ \A p \in DOMAIN args : args[p].f = names[p]

\* C17: fixtures are resolved depth-first and left to right.  At every moment
\* the values collected for the benchmark are those of its first parameters,
\* in order, and the resolver works on the next one; every activation of
\* run_fixture holds the values of its first dependencies, in order, and the
\* activation above it resolves the next one; a producer is called with the
\* values of all its dependencies in declared order, each produced before,
\* and so is the benchmark.
C17_ResolutionOrder ==
    \A e \in Executors :
        LET x == ex[e]
            names == FixtureNamesOf(x.benchmark)
        IN /\ Positional(x.fixture_results, names, x.fidx - 1)
           /\ x.stack # <<>> => x.stack[1].name = names[x.fidx]
           /\ \A d \in DOMAIN x.stack :
                 LET deps == module[x.stack[d].name].deps
                 IN /\ Positional(x.stack[d].args, deps, x.stack[d].i - 1)
                    /\ \A p \in DOMAIN x.stack[d].args :
                          ValueBefore(x, x.stack[d].args[p], Len(x.log) + 1)
                    /\ d < Len(x.stack) =>
                          x.stack[d + 1].name = deps[x.stack[d].i]
           /\ \A i \in DOMAIN x.log :
                 /\ x.log[i].op = "produce" =>
                       /\ Positional(x.log[i].args, module[x.log[i].f].deps,
                                     Len(module[x.log[i].f].deps))
                       /\ \A p \in DOMAIN x.log[i].args :
                             ValueBefore(x, x.log[i].args[p], i)
                 /\ x.log[i].op = "invoke" =>
                       /\ Positional(x.log[i].args, names, Len(names))
                       /\ \A p \in DOMAIN x.log[i].args :
                             ValueBefore(x, x.log[i].args[p], i)

\* fixture c was produced from a and b, one resolved by recursion and one
\* taken from the cache, and the benchmark was called with two values
C17_Witness ==
    \E e \in Executors :
        /\ ex[e].pc = "done"
        /\ \E i \in DOMAIN ex[e].log :
              /\ ex[e].log[i].op = "produce" /\ ex[e].log[i].f = "c"
              /\ Len(ex[e].log[i].args) = 2
        /\ \E i \in DOMAIN ex[e].log :
              ex[e].log[i].op = "invoke" /\ Len(ex[e].log[i].args) = 2

\* the generators executor state x created, in the order it created them, and
\* those it resumed for teardown, in the order it resumed them
Acquired(x) ==
    LET made == SelectSeq(x.log, LAMBDA ev : /\ ev.op = "produce"
                                             /\ module[ev.f].kind = "asyncgen")
    IN [k \in DOMAIN made |-> <<made[k].f, made[k].n>>]

Released(x) ==
    LET torn == SelectSeq(x.log, LAMBDA ev : ev.op = "teardown")
    IN [k \in DOMAIN torn |-> <<torn[k].f, torn[k].n>>]

\* C18: the generators of an executor are resumed for teardown in the order
\* they were acquired, all of them after a normal run, so a generator another
\* generator was produced from is torn down before that one.
C18_TeardownFifo ==
    \A e \in Executors :
        LET x == ex[e] IN
        /\ Len(Released(x)) <= Len(Acquired(x))
        /\ \A k \in DOMAIN Released(x) : Released(x)[k] = Acquired(x)[k]
        /\ x.pc = "done" => Released(x) = Acquired(x)
        /\ \A i, j \in DOMAIN x.log :
              (/\ x.log[i].op = "teardown" /\ x.log[j].op = "produce"
               /\ x.log[j].f = x.log[i].f /\ x.log[j].n = x.log[i].n) =>
                  \A p \in DOMAIN x.log[j].args :
                      module[x.log[j].args[p].f].kind = "asyncgen" =>
                          \E h \in 1..(i - 1) :
                              /\ x.log[h].op = "teardown"
                              /\ x.log[h].f = x.log[j].args[p].f
                              /\ x.log[h].n = x.log[j].args[p].n

\* generator a was produced from generator b and both were torn down
C18_Witness ==
    \E e \in Executors :
        /\ ex[e].pc = "done"
        /\ Released(ex[e]) = << <<"b", 1>>, <<"a", 1>> >>
        /\ module["a"].deps = <<"b">>

\* run_benchmarks has ended, and every worker and executor with it
RunEnded ==
    /\ rb_pc \in {"returned", "raised"}
    /\ \A w \in DOMAIN worker : worker[w].pc \in {"returned", "raised"}
    /\ \A e \in Executors : Finished(e)

\* something raised: user code, a wrong script, or a filter that does not compile
SomethingRaised ==
    \/ \E e \in Executors : ex[e].error # ""
    \/ specific_task # <<>> /\ Malformed(specific_task)

\* C19: when user code terminates and the clock advances, every executor
\* started leaves its loop and finishes, every worker ends, and run_benchmarks
\* ends; it returns, all benchmarks processed, unless something raised.
C19_Termination ==
    /\ <>RunEnded
    /\ [](rb_pc = "wait" =>
            <>(/\ \A e \in Executors : Finished(e) /\ (ex[e].error = "" => LoopExited(ex[e]))
               /\ \A w \in DOMAIN worker : worker[w].pc \in {"returned", "raised"}))
    /\ [](rb_pc = "returned" => bidx > Len(benchmarks))
    /\ [](rb_pc = "raised" => SomethingRaised)

\* a batch of two benchmarks was run to its deadline and returned
C19_Witness ==
    /\ rb_pc = "returned" /\ Len(benchmarks) = 2 /\ bidx = 3
    /\ duration_minutes = 1 /\ now >= SecondsPerMinute
    /\ \A b \in DOMAIN calls : calls[b] >= 1

\* the benchmark whose workers exist: the one being run, or the one just merged
Current == IF rb_pc \in {"wait", "raised"} THEN bidx ELSE bidx - 1

\* the place of the benchmark named n in discovery order
IndexOf(n) == CHOOSE b \in DOMAIN benchmarks : benchmarks[b].name = n

\* C20: benchmarks run one at a time in discovery order.  All executors
\* belong to one benchmark; nothing of a benchmark is started before it is
\* dispatched; when the orchestrator is between two benchmarks every worker
\* has returned and every executor is done; while the workers of a benchmark
\* run, the collection holds all the rows of the earlier benchmarks and none
\* of this one; the rows lie in discovery order.
C20_NoOverlap ==
    /\ \A e \in Executors : ex[e].benchmark = Current
    /\ \A b \in DOMAIN calls :
          (calls[b] > 0 \/ launched[b] > 0) => Dispatched(b)
    /\ rb_pc \in {"loop", "returned"} =>
          /\ \A w \in DOMAIN worker : worker[w].pc = "returned"
          /\ \A e \in Executors : ex[e].pc = "done"
    /\ rb_pc = "wait" =>
          /\ RowsOf(benchmarks[bidx].name) = <<>>
          /\ \A b \in 1..(bidx - 1) : Len(RowsOf(benchmarks[b].name)) = calls[b]
    /\ \A i, j \in DOMAIN all_data :
          i < j => IndexOf(all_data[i].benchmark) <= IndexOf(all_data[j].benchmark)

\* the second benchmark is being called while the rows of the first are held
C20_Witness ==
    /\ rb_pc = "wait" /\ bidx = 2
    /\ RowsOf(benchmarks[1].name) # <<>>
    /\ \E e \in Executors : ex[e].pc = "in_invoke" /\ ex[e].benchmark = 2
====
